---- MODULE Spec2Model ----
(***************************************************************************)
(* A model of the CHIP-8 virtual machine of src/src/chip8.rs (struct CHIP8 *)
(* and its methods new, load_fonts, load_rom, cycle) driven by the main    *)
(* loop of src/src/main.rs (keypad refresh, then one cycle).               *)
(***************************************************************************)
EXTENDS Integers, Sequences, FiniteSets, TLC

\* The fields of struct CHIP8 (chip8.rs 3-18).  debug only switches trace
\* printing and is left out.
VARIABLES memory, vregister, index_register, program_counter, stack_pointer,
          stack, delay_timer, sound_timer, display, keypad

\* Where the process is: "running" (between two calls of cycle), "panicked"
\* (a Rust panic ended the process: index out of bounds, arithmetic overflow
\* in a build with overflow checks) or "spinning" (inside the `while
\* key.is_none()` loop of chip8.rs 358-365, which the process never leaves).
VARIABLE status

\* The local `opcode` of the last call of cycle (chip8.rs 83, printed at 431);
\* -1 before the first call and when the fetch panicked.
VARIABLE opcode

\* The bytes of the ROM file, `data` of load_rom (chip8.rs 72).
VARIABLE rom_data

\* History variable: the calls that have not returned yet, oldest first, each
\* with the address of its CALL instruction and the stack pointer before it.
VARIABLE call_log

\* History variable: what the last completed DxyN started from, as a
\* sequence of at most one record with the opcode, the coordinates Vx and
\* Vy, the index register and the framebuffer before the draw.
VARIABLE draw_log

vars == <<memory, vregister, index_register, program_counter, stack_pointer,
          stack, delay_timer, sound_timer, display, keypad, status, opcode,
          rom_data, call_log, draw_log>>

----------------------------------------------------------------------------
\* Sizes of the arrays of struct CHIP8.

\* memory: [u8; 4096]
MEMORY_SIZE == 4096

\* vregister: [u8; 16]; keypad: [bool; 16]
NUM_REGISTERS == 16

\* stack: [u16; 16]
STACK_SIZE == 16

\* display: [u8; 64 * 32]
DISPLAY_WIDTH == 64

DISPLAY_HEIGHT == 32

DISPLAY_SIZE == DISPLAY_WIDTH * DISPLAY_HEIGHT

\* load_fonts: START_ADDRESS = 0x50
FONT_START_ADDRESS == 80

\* load_rom: START_ADDRESS = 0x200; also the program counter of new()
ROM_START_ADDRESS == 512

\* u8 and u16 arithmetic
U8 == 256

U16 == 65536

----------------------------------------------------------------------------
\* Bit operations on bytes, as Rust's |, &, ^ on u8.

RECURSIVE BitOp(_, _, _, _)
BitOp(f, a, b, bits) ==
    IF bits = 0 THEN 0
    ELSE (IF f = "or" THEN (IF (a % 2) + (b % 2) > 0 THEN 1 ELSE 0)
          ELSE IF f = "and" THEN (a % 2) * (b % 2)
          ELSE ((a % 2) + (b % 2)) % 2)
         + 2 * BitOp(f, a \div 2, b \div 2, bits - 1)

BitOr(a, b) == BitOp("or", a, b, 8)

BitAnd(a, b) == BitOp("and", a, b, 8)

BitXor(a, b) == BitOp("xor", a, b, 8)

----------------------------------------------------------------------------
\* Operand extraction, as the masks and shifts of cycle.

\* (opcode & 0x0F00) >> 8
RegX(op) == (op \div 256) % 16

\* (opcode & 0x00F0) >> 4
RegY(op) == (op \div 16) % 16

\* opcode & 0x000F
LastNibble(op) == op % 16

\* opcode & 0x00FF
LowByte(op) == op % 256

\* opcode & 0x0FFF
Addr(op) == op % 4096

\* The arm of `match opcode` that an opcode selects: its high nibble, except
\* that 0x00E0 and 0x00EE are matched whole and every other 0x0nnn falls
\* through to the catch-all arm.
HighNibble(op) == op \div 4096

----------------------------------------------------------------------------
\* CHIP8::new and the loader.

FONT_SET ==
    << 240, 144, 144, 144, 240,
        32,  96,  32,  32, 112,
       240,  16, 240, 128, 240,
       240,  16, 240,  16, 240,
       144, 144, 240,  16,  16,
       240, 128, 240,  16, 240,
       240, 128, 240, 144, 240,
       240,  16,  32,  64,  64,
       240, 144, 240, 144, 240,
       240, 144, 240,  16, 240,
       240, 144, 240, 144, 144,
       224, 144, 224, 144, 224,
       240, 128, 128, 128, 240,
       224, 144, 144, 144, 224,
       240, 128, 240, 128, 240,
       240, 128, 240, 128, 128 >>

\* The machine as a record of the fields of struct CHIP8 plus the process
\* status; the operators below map such a record to the record after a step.
new ==
    [ memory          |-> [a \in 0..(MEMORY_SIZE - 1) |-> 0],
      vregister       |-> [r \in 0..(NUM_REGISTERS - 1) |-> 0],
      index_register  |-> 0,
      program_counter |-> ROM_START_ADDRESS,
      stack_pointer   |-> 0,
      stack           |-> [i \in 0..(STACK_SIZE - 1) |-> 0],
      delay_timer     |-> 0,
      sound_timer     |-> 0,
      display         |-> [p \in 0..(DISPLAY_SIZE - 1) |-> 0],
      keypad          |-> [k \in 0..(NUM_REGISTERS - 1) |-> FALSE],
      status          |-> "running" ]

Panic(s) == [s EXCEPT !.status = "panicked"]

\* The loop `for (i, &byte) in data.iter().enumerate() { memory[start + i] = byte }`
\* from iteration i on (bytes i + 1 .. Len(data) of the sequence), with every
\* index inside memory.
RECURSIVE StoreBytes(_, _, _, _)
StoreBytes(mem, start, data, i) ==
    IF i >= Len(data) THEN mem
    ELSE StoreBytes([mem EXCEPT ![start + i] = data[i + 1]], start, data, i + 1)

\* The same loop run to its end in one step, for data of any length: cell
\* start + i holds byte i of data and every other cell is as before.
StoreFile(mem, start, data) ==
    [a \in start..(start + Len(data) - 1) |-> data[a - start + 1]] @@ mem

\* load_fonts: the 80 bytes of FONT_SET to memory[0x50 ..]
load_fonts(s) ==
    [s EXCEPT !.memory = StoreBytes(s.memory, FONT_START_ADDRESS, FONT_SET, 0)]

\* load_rom: the bytes of the file to memory[0x200 ..], one by one with no
\* test of the length; the first index past the end of memory panics, after
\* the bytes that fit were written.
load_rom(s, data) ==
    IF ROM_START_ADDRESS + Len(data) > MEMORY_SIZE
    THEN Panic([s EXCEPT !.memory =
                    StoreFile(s.memory, ROM_START_ADDRESS,
                              SubSeq(data, 1, MEMORY_SIZE - ROM_START_ADDRESS))])
    ELSE [s EXCEPT !.memory = StoreFile(s.memory, ROM_START_ADDRESS, data)]

----------------------------------------------------------------------------
\* The arms of `match opcode` in cycle.  Each maps the machine s and the
\* fetched opcode op to the machine after the arm; a panic inside the arm
\* gives Panic(s).  The program counter is below 4096 when an arm runs (the
\* fetch indexed memory with it), so `program_counter += 2` cannot overflow.

\* Mutant of Op00E0: the display is left as it is.
Op00E0KeepsDisplay(s, op) ==
    [s EXCEPT !.program_counter = s.program_counter + 2]

\* 0x00E0: clear the display
Op00E0(s, op) ==
    [s EXCEPT !.display = new.display,
              !.program_counter = s.program_counter + 2]

\* Mutant of Op00EE: the popped address is not advanced by 2.
Op00EENoAdvance(s, op, overflow_checks) ==
    IF s.stack_pointer = 0
    THEN Panic(s)
    ELSE [s EXCEPT !.stack_pointer = s.stack_pointer - 1,
                   !.program_counter = s.stack[s.stack_pointer - 1]]

\* 0x00EE: return from a subroutine.  `stack_pointer -= 1` on 0 panics in a
\* build with overflow checks; in a build without it wraps the u8 to 255,
\* and then stack[255] panics.
Op00EE(s, op, overflow_checks) ==
    IF s.stack_pointer = 0
    THEN IF overflow_checks THEN Panic(s)
         ELSE Panic([s EXCEPT !.stack_pointer = (s.stack_pointer - 1) % U8])
    ELSE [s EXCEPT !.stack_pointer = s.stack_pointer - 1,
                   !.program_counter = s.stack[s.stack_pointer - 1] + 2]

\* 0x1nnn: jump to location nnn
Op1nnn(s, op) == [s EXCEPT !.program_counter = Addr(op)]

\* 0x2nnn: call subroutine at nnn.  stack[16] is out of bounds.
Op2nnn(s, op) ==
    IF s.stack_pointer >= STACK_SIZE
    THEN Panic(s)
    ELSE [s EXCEPT !.stack[s.stack_pointer] = s.program_counter,
                   !.stack_pointer = s.stack_pointer + 1,
                   !.program_counter = Addr(op)]

\* 0x3xkk: skip next instruction if Vx == kk
Op3xkk(s, op) ==
    [s EXCEPT !.program_counter =
        (IF s.vregister[RegX(op)] = LowByte(op) THEN s.program_counter + 2
         ELSE s.program_counter) + 2]

\* 0x4xkk: skip next instruction if Vx != kk
Op4xkk(s, op) ==
    [s EXCEPT !.program_counter =
        (IF s.vregister[RegX(op)] # LowByte(op) THEN s.program_counter + 2
         ELSE s.program_counter) + 2]

\* 0x5xyn: skip next instruction if Vx == Vy (the low nibble is not looked at)
Op5xy0(s, op) ==
    [s EXCEPT !.program_counter =
        (IF s.vregister[RegX(op)] = s.vregister[RegY(op)]
         THEN s.program_counter + 2 ELSE s.program_counter) + 2]

\* 0x6xkk: put value kk into register Vx
Op6xkk(s, op) ==
    [s EXCEPT !.vregister[RegX(op)] = LowByte(op),
              !.program_counter = s.program_counter + 2]

\* 0x7xkk: Vx = Vx.wrapping_add(kk)
Op7xkk(s, op) ==
    [s EXCEPT !.vregister[RegX(op)] = (s.vregister[RegX(op)] + LowByte(op)) % U8,
              !.program_counter = s.program_counter + 2]

\* Mutant of Op8xy4: VF is written before Vx, so the sum overwrites the
\* carry when x is 0xF.
Op8xy4FlagFirst(v, x, y) ==
    LET result == (v[x] + v[y]) % U8
        carry  == v[x] + v[y] >= U8
        v1     == [v EXCEPT ![15] = IF carry THEN 1 ELSE 0]
    IN  [v1 EXCEPT ![x] = result]

\* 0x8xy4: (result, carry) = Vx.overflowing_add(Vy); Vx = result; VF = carry
Op8xy4(v, x, y) ==
    LET result == (v[x] + v[y]) % U8
        carry  == v[x] + v[y] >= U8
        v1     == [v EXCEPT ![x] = result]
    IN  [v1 EXCEPT ![15] = IF carry THEN 1 ELSE 0]

\* 0x8xy5: VF = (Vx > Vy); then Vx = Vx.wrapping_sub(Vy), read after VF is written
Op8xy5(v, x, y) ==
    LET v1 == [v EXCEPT ![15] = IF v[x] > v[y] THEN 1 ELSE 0]
    IN  [v1 EXCEPT ![x] = (v1[x] - v1[y]) % U8]

\* 0x8xy6: lsb = Vx & 1; VF = lsb; then Vx /= 2, read after VF is written
Op8xy6(v, x, y) ==
    LET lsb == v[x] % 2
        v1  == [v EXCEPT ![15] = IF lsb = 1 THEN 1 ELSE 0]
    IN  [v1 EXCEPT ![x] = v1[x] \div 2]

\* 0x8xy7: VF = (Vy > Vx); then Vx = Vy.wrapping_sub(Vx), read after VF is written
Op8xy7(v, x, y) ==
    LET v1 == [v EXCEPT ![15] = IF v[y] > v[x] THEN 1 ELSE 0]
    IN  [v1 EXCEPT ![x] = (v1[y] - v1[x]) % U8]

\* 0x8xyE: msb = (Vx & 0x80) >> 7; VF = msb; then Vx = Vx.wrapping_mul(2),
\* read after VF is written
Op8xyE(v, x, y) ==
    LET msb == (v[x] \div 128) % 2
        v1  == [v EXCEPT ![15] = IF msb = 1 THEN 1 ELSE 0]
    IN  [v1 EXCEPT ![x] = (v1[x] * 2) % U8]

\* 0x8xyn: the register-register variants, selected by the last nibble; an
\* unknown variant is printed.  Every variant then advances the counter.
Op8xyn(s, op) ==
    LET x == RegX(op)
        y == RegY(op)
        v == s.vregister
        last_nibble == LastNibble(op)
        v2 == CASE last_nibble = 0  -> [v EXCEPT ![x] = v[y]]
                [] last_nibble = 1  -> [v EXCEPT ![x] = BitOr(v[x], v[y])]
                [] last_nibble = 2  -> [v EXCEPT ![x] = BitAnd(v[x], v[y])]
                [] last_nibble = 3  -> [v EXCEPT ![x] = BitXor(v[x], v[y])]
                [] last_nibble = 4  -> Op8xy4(v, x, y)
                [] last_nibble = 5  -> Op8xy5(v, x, y)
                [] last_nibble = 6  -> Op8xy6(v, x, y)
                [] last_nibble = 7  -> Op8xy7(v, x, y)
                [] last_nibble = 14 -> Op8xyE(v, x, y)
                [] OTHER            -> v
    IN  [s EXCEPT !.vregister = v2,
                  !.program_counter = s.program_counter + 2]

\* 0x9xyn: skip next instruction if Vx != Vy
Op9xy0(s, op) ==
    [s EXCEPT !.program_counter =
        (IF s.vregister[RegX(op)] # s.vregister[RegY(op)]
         THEN s.program_counter + 2 ELSE s.program_counter) + 2]

\* 0xAnnn: I = nnn
OpAnnn(s, op) ==
    [s EXCEPT !.index_register = Addr(op),
              !.program_counter = s.program_counter + 2]

\* 0xBnnn: jump to location nnn + V0 (at most 0xFFF + 0xFF, no u16 overflow)
OpBnnn(s, op) == [s EXCEPT !.program_counter = Addr(op) + s.vregister[0]]

\* 0xCxkk: Vx = random byte AND kk
OpCxkk(s, op, random_byte) ==
    [s EXCEPT !.vregister[RegX(op)] = BitAnd(random_byte, LowByte(op)),
              !.program_counter = s.program_counter + 2]

----------------------------------------------------------------------------
\* 0xDxyn: display an n-byte sprite.

\* (byte >> (7 - col)) & 0x01
SpriteBit(byte, col) ==
    LET RECURSIVE Shr(_, _)
        Shr(b, k) == IF k = 0 THEN b ELSE Shr(b \div 2, k - 1)
    IN  Shr(byte, 7 - col) % 2

\* pixel_index = (x + col) + (y + row) * 64, in usize
PixelIndex(x, y, row, col) == (x + col) + (y + row) * DISPLAY_WIDTH

\* The two nested loops over the rows and the columns of the sprite, from
\* iteration k = row * 8 + col on: a set bit XORs display[pixel_index] with 1,
\* and an index outside the display panics there and then.  The result is
\* the display after the loops, or <<>> when an index panicked.
RECURSIVE DrawLoop(_, _, _, _, _)
DrawLoop(disp, reading_bytes, x, y, k) ==
    IF k >= 8 * Len(reading_bytes) THEN disp
    ELSE LET row == k \div 8
             col == k % 8
             pixel_index == PixelIndex(x, y, row, col)
         IN  IF SpriteBit(reading_bytes[row + 1], col) = 1
             THEN IF pixel_index >= DISPLAY_SIZE THEN <<>>
                  ELSE DrawLoop([disp EXCEPT ![pixel_index] = BitXor(@, 1)],
                                reading_bytes, x, y, k + 1)
             ELSE DrawLoop(disp, reading_bytes, x, y, k + 1)

\* Mutant of OpDxyn: VF is set to 1 when the sprite turns a pixel off.
OpDxynCollision(s, op) ==
    LET n == LastNibble(op)
        x == s.vregister[RegX(op)]
        y == s.vregister[RegY(op)]
    IN  IF n >= 1 /\ s.index_register + (n - 1) >= MEMORY_SIZE
        THEN Panic(s)
        ELSE LET reading_bytes == [i \in 1..n |-> s.memory[s.index_register + (i - 1)]]
                 drawn == DrawLoop(s.display, reading_bytes, x, y, 0)
             IN  IF drawn = <<>>
                 THEN Panic(s)
                 ELSE [s EXCEPT !.vregister[15] =
                                    IF \E p \in 0..(DISPLAY_SIZE - 1) :
                                          s.display[p] = 1 /\ drawn[p] = 0
                                    THEN 1 ELSE 0,
                                !.display = drawn,
                                !.program_counter = s.program_counter + 2]

\* Mutant of OpDxyn: a set bit of the sprite sets its pixel to 1 instead of
\* toggling it.
OpDxynSetsPixels(s, op) ==
    LET n == LastNibble(op)
        x == s.vregister[RegX(op)]
        y == s.vregister[RegY(op)]
        v1 == [s.vregister EXCEPT ![15] = 0]
    IN  IF n >= 1 /\ s.index_register + (n - 1) >= MEMORY_SIZE
        THEN Panic(s)
        ELSE LET reading_bytes == [i \in 1..n |-> s.memory[s.index_register + (i - 1)]]
                 drawn == DrawLoop(s.display, reading_bytes, x, y, 0)
             IN  IF drawn = <<>>
                 THEN Panic(s)
                 ELSE [s EXCEPT !.vregister = v1,
                                !.display = [p \in 0..(DISPLAY_SIZE - 1) |->
                                                IF drawn[p] # s.display[p] THEN 1
                                                ELSE s.display[p]],
                                !.program_counter = s.program_counter + 2]

\* x and y are read, VF is reset, the n bytes from memory[I] on are read
\* (an address past the end of memory panics), and the sprite is drawn.
OpDxyn(s, op) ==
    LET n == LastNibble(op)
        x == s.vregister[RegX(op)]
        y == s.vregister[RegY(op)]
        v1 == [s.vregister EXCEPT ![15] = 0]
    IN  IF n >= 1 /\ s.index_register + (n - 1) >= MEMORY_SIZE
        THEN Panic(s)
        ELSE LET reading_bytes == [i \in 1..n |-> s.memory[s.index_register + (i - 1)]]
                 drawn == DrawLoop(s.display, reading_bytes, x, y, 0)
             IN  IF drawn = <<>>
                 THEN Panic(s)
                 ELSE [s EXCEPT !.vregister = v1,
                                !.display = drawn,
                                !.program_counter = s.program_counter + 2]

----------------------------------------------------------------------------
\* 0xExkk: the two key tests; keypad[Vx] with Vx above 15 panics.
OpExkk(s, op) ==
    LET reg == RegX(op)
        last_nibbles == LowByte(op)
    IN  IF last_nibbles \in {158, 161} /\ s.vregister[reg] >= NUM_REGISTERS
        THEN Panic(s)
        ELSE [s EXCEPT !.program_counter =
                (CASE last_nibbles = 158 ->
                        IF s.keypad[s.vregister[reg]] = TRUE
                        THEN s.program_counter + 2 ELSE s.program_counter
                   [] last_nibbles = 161 ->
                        IF s.keypad[s.vregister[reg]] = FALSE
                        THEN s.program_counter + 2 ELSE s.program_counter
                   [] OTHER -> s.program_counter) + 2]

----------------------------------------------------------------------------
\* 0xFxkk: the F-class variants.

\* Mutant of FirstKey: the highest true index instead of the lowest.
FirstKeyHighest(kp) ==
    IF \E i \in 0..(NUM_REGISTERS - 1) : kp[i]
    THEN CHOOSE i \in 0..(NUM_REGISTERS - 1) :
            kp[i] /\ \A j \in (i + 1)..(NUM_REGISTERS - 1) : ~kp[j]
    ELSE -1

\* 0xFx0A: `while key.is_none()` scans the keypad for the first true flag.
\* The keypad does not change inside cycle, so with no flag true the loop
\* never ends; otherwise its first pass finds the lowest true index.
FirstKey(kp) ==
    IF \E i \in 0..(NUM_REGISTERS - 1) : kp[i]
    THEN CHOOSE i \in 0..(NUM_REGISTERS - 1) :
            kp[i] /\ \A j \in 0..(i - 1) : ~kp[j]
    ELSE -1

OpFx0A(s, reg) ==
    IF FirstKey(s.keypad) = -1
    THEN [s EXCEPT !.status = "spinning"]
    ELSE [s EXCEPT !.vregister[reg] = FirstKey(s.keypad)]

\* 0xFx1E: I = I + Vx in u16: an overflow panics in a build with overflow
\* checks and wraps in a build without.
OpFx1E(s, reg, overflow_checks) ==
    LET sum == s.index_register + s.vregister[reg]
    IN  IF sum >= U16
        THEN IF overflow_checks THEN Panic(s)
             ELSE [s EXCEPT !.index_register = sum % U16]
        ELSE [s EXCEPT !.index_register = sum]

\* Mutant of OpFx29: a font size of 4 bytes per digit.
OpFx29FontSize4(s, reg) ==
    [s EXCEPT !.index_register = (FONT_START_ADDRESS + s.vregister[reg] * 4) % U16]

\* 0xFx29: I = (font_start + Vx * font_size) as u16, font_start 0x50, font_size 5
OpFx29(s, reg) ==
    [s EXCEPT !.index_register = (FONT_START_ADDRESS + s.vregister[reg] * 5) % U16]

\* Mutant of OpFx33: the tens cell holds Vx / 10 without `% 10`.
OpFx33TensNotReduced(s, reg) ==
    LET value == s.vregister[reg]
        i == s.index_register
    IN  IF i + 2 >= MEMORY_SIZE
        THEN Panic(s)
        ELSE [s EXCEPT !.memory = [s.memory EXCEPT ![i] = value \div 100,
                                                    ![i + 1] = value \div 10,
                                                    ![i + 2] = value % 10]]

\* 0xFx33: BCD of Vx to memory[I], memory[I + 1], memory[I + 2]
OpFx33(s, reg) ==
    LET value == s.vregister[reg]
        i == s.index_register
    IN  IF i + 2 >= MEMORY_SIZE
        THEN Panic(s)
        ELSE [s EXCEPT !.memory = [s.memory EXCEPT ![i] = value \div 100,
                                                    ![i + 1] = (value \div 10) % 10,
                                                    ![i + 2] = value % 10]]

\* Mutant of OpFx55: the range 0..x without Vx itself.
OpFx55Exclusive(s, reg) ==
    IF s.index_register + reg >= MEMORY_SIZE
    THEN Panic(s)
    ELSE [s EXCEPT !.memory =
            StoreBytes(s.memory, s.index_register,
                       [i \in 1..reg |-> s.vregister[i - 1]], 0)]

\* 0xFx55: memory[I + i] = V[i] for i in 0..=x
OpFx55(s, reg) ==
    IF s.index_register + reg >= MEMORY_SIZE
    THEN Panic(s)
    ELSE [s EXCEPT !.memory =
            StoreBytes(s.memory, s.index_register,
                       [i \in 1..(reg + 1) |-> s.vregister[i - 1]], 0)]

\* 0xFx65: V[i] = memory[I + i] for i in 0..=x
OpFx65(s, reg) ==
    IF s.index_register + reg >= MEMORY_SIZE
    THEN Panic(s)
    ELSE [s EXCEPT !.vregister =
            [r \in 0..(NUM_REGISTERS - 1) |->
                IF r <= reg THEN s.memory[s.index_register + r]
                ELSE s.vregister[r]]]

\* The F-class arm: the variant, then `program_counter += 2` when the
\* variant returned.
OpFxkk(s, op, overflow_checks) ==
    LET reg == RegX(op)
        last_nibbles == LowByte(op)
        s1 == CASE last_nibbles = 7   -> [s EXCEPT !.vregister[reg] = s.delay_timer]
                [] last_nibbles = 10  -> OpFx0A(s, reg)
                [] last_nibbles = 21  -> [s EXCEPT !.delay_timer = s.vregister[reg]]
                [] last_nibbles = 24  -> [s EXCEPT !.sound_timer = s.vregister[reg]]
                [] last_nibbles = 30  -> OpFx1E(s, reg, overflow_checks)
                [] last_nibbles = 41  -> OpFx29(s, reg)
                [] last_nibbles = 51  -> OpFx33(s, reg)
                [] last_nibbles = 85  -> OpFx55(s, reg)
                [] last_nibbles = 101 -> OpFx65(s, reg)
                [] OTHER              -> s
    IN  IF s1.status = "running"
        THEN [s1 EXCEPT !.program_counter = s1.program_counter + 2]
        ELSE s1

\* The catch-all arm `_ =>`: reached by every 0x0nnn other than 0x00E0 and
\* 0x00EE; it prints when debug is set and does nothing else.
OpUnknown(s, op) == s

----------------------------------------------------------------------------
\* cycle.

\* Mutant of Fetch: the byte at pc is taken as the low byte of the opcode.
FetchLowByteFirst(s) ==
    IF s.program_counter + 1 >= MEMORY_SIZE THEN -1
    ELSE s.memory[s.program_counter + 1] * 256 + s.memory[s.program_counter]

\* opcode = (memory[pc] as u16) << 8 | memory[pc + 1] as u16; an index past
\* the memory panics, which is -1 here.
Fetch(s) ==
    IF s.program_counter + 1 >= MEMORY_SIZE THEN -1
    ELSE s.memory[s.program_counter] * 256 + s.memory[s.program_counter + 1]

\* match opcode { ... }
Execute(s, op, random_byte, overflow_checks) ==
    CASE op = 224             -> Op00E0(s, op)
      [] op = 238             -> Op00EE(s, op, overflow_checks)
      [] HighNibble(op) = 1   -> Op1nnn(s, op)
      [] HighNibble(op) = 2   -> Op2nnn(s, op)
      [] HighNibble(op) = 3   -> Op3xkk(s, op)
      [] HighNibble(op) = 4   -> Op4xkk(s, op)
      [] HighNibble(op) = 5   -> Op5xy0(s, op)
      [] HighNibble(op) = 6   -> Op6xkk(s, op)
      [] HighNibble(op) = 7   -> Op7xkk(s, op)
      [] HighNibble(op) = 8   -> Op8xyn(s, op)
      [] HighNibble(op) = 9   -> Op9xy0(s, op)
      [] HighNibble(op) = 10  -> OpAnnn(s, op)
      [] HighNibble(op) = 11  -> OpBnnn(s, op)
      [] HighNibble(op) = 12  -> OpCxkk(s, op, random_byte)
      [] HighNibble(op) = 13  -> OpDxyn(s, op)
      [] HighNibble(op) = 14  -> OpExkk(s, op)
      [] HighNibble(op) = 15  -> OpFxkk(s, op, overflow_checks)
      [] OTHER                -> OpUnknown(s, op)

\* Mutant of TickTimers: the timers are decremented without the test for
\* zero, wrapping from 0 to 255.
TickTimersWrapping(s) ==
    [s EXCEPT !.delay_timer = (s.delay_timer - 1) % U8,
              !.sound_timer = (s.sound_timer - 1) % U8]

\* if delay_timer > 0 { delay_timer -= 1 }; if sound_timer > 0 { sound_timer -= 1 }
TickTimers(s) ==
    [s EXCEPT !.delay_timer = IF s.delay_timer > 0 THEN s.delay_timer - 1 ELSE s.delay_timer,
              !.sound_timer = IF s.sound_timer > 0 THEN s.sound_timer - 1 ELSE s.sound_timer]

\* Mutant of cycle: the timers are decremented before the arm runs.
cycleTicksFirst(s, random_byte, overflow_checks) ==
    IF Fetch(s) = -1
    THEN Panic(s)
    ELSE Execute(TickTimers(s), Fetch(s), random_byte, overflow_checks)

\* One call of cycle: fetch, the arm, and the timers when the arm returned.
cycle(s, random_byte, overflow_checks) ==
    IF Fetch(s) = -1
    THEN Panic(s)
    ELSE LET s1 == Execute(s, Fetch(s), random_byte, overflow_checks)
         IN  IF s1.status = "running" THEN TickTimers(s1) ELSE s1

----------------------------------------------------------------------------
\* The inputs: the ROM image that load_rom reads, the keys that main finds
\* down before each cycle, the byte that rand::random() returns and whether
\* the build checks arithmetic overflow.

\* Register indices that the programs use: V0 (the offset of Bnnn), a
\* general register and VF (the flag register).
RegIdx == {0, 1, 15}

\* Values loaded into the first and into the second operand register.
Bytes == {0, 1, 3, 5, 128, 255}

BytesY == {1, 3, 255}

\* An opcode from its four nibbles, 6xkk from x and kk, and the bytes of a
\* program as they lie in the ROM file (most significant byte first).
Op(h, x, y, n) == h * 4096 + x * 256 + y * 16 + n

Load(x, kk) == Op(6, x, kk \div 16, kk % 16)

RECURSIVE RomBytes(_)
RomBytes(ops) ==
    IF ops = <<>> THEN <<>>
    ELSE <<Head(ops) \div 256, Head(ops) % 256>> \o RomBytes(Tail(ops))

\* Instructions on one register: the skips on an immediate, 7xkk, Cxkk, the
\* key tests, every F-class variant, an unknown E and an unknown F variant;
\* and 00E0, B206 and two unknown 0x0nnn.
UnaryOps(x) ==
    {Op(3, x, 0, 5), Op(4, x, 0, 5), Op(7, x, 0, 1), Op(12, x, 15, 0)}
    \cup {Op(14, x, 9, 14), Op(14, x, 10, 1), Op(14, x, 15, 15)}
    \cup {Op(15, x, k \div 16, k % 16) : k \in {7, 10, 21, 24, 30, 41, 51, 85, 101, 255}}
    \cup {Op(0, 0, 14, 0), Op(11, 2, 0, 6), Op(0, 1, 2, 3), Op(0, 0, 14, 1)}

\* Instructions on two registers: 8xy0 .. 8xy7, 8xyE, the unknown 8xy8, and
\* the two register skips.
BinaryOps(x, y) ==
    {Op(8, x, y, n) : n \in (0..8) \cup {14}} \cup {Op(5, x, y, 0), Op(9, x, y, 0)}

\* load Vx, one instruction; zeroes (the opcode 0x0000) follow every program.
UnaryRoms ==
    UNION {{<<Load(x, a), body>> : a \in Bytes, body \in UnaryOps(x)} : x \in RegIdx}

\* load Vx, load Vy, one instruction
BinaryRoms ==
    UNION {{<<Load(x, a), Load(y, b), body>> :
                a \in Bytes, b \in BytesY, body \in BinaryOps(x, y)} :
           x \in RegIdx, y \in RegIdx}

\* The deepest recursion limit tried by the recursive programs.
MaxDepth == 17

\* 0x200: V0 += 1; 0x202: skip if V0 == limit; 0x204: CALL 0x200; 0x206: RET.
\* The subroutine calls itself until V0 reaches the limit and then every
\* call returns.  And some short programs of calls, jumps and returns.
CallRoms ==
    {<<Op(7, 0, 0, 1), Op(3, 0, limit \div 16, limit % 16), Op(2, 2, 0, 0), Op(0, 0, 14, 14)>> :
        limit \in 1..MaxDepth}
    \cup { <<Op(2, 2, 0, 0)>>,
           <<Op(0, 0, 14, 14)>>,
           <<Op(2, 2, 0, 6), Op(2, 2, 0, 8), Op(1, 2, 0, 4), Op(0, 0, 14, 14), Op(0, 0, 14, 14)>>,
           <<Op(2, 2, 0, 4), Op(1, 2, 0, 2), Op(2, 2, 0, 8), Op(0, 0, 14, 14), Op(0, 0, 14, 14)>> }

\* Sprite coordinates: inside the display, at its right and bottom edges,
\* and past them.
CoordsX == {0, 62, 64}

CoordsY == {0, 30, 32}

\* The tallest sprite drawn by the drawing programs.
MaxRows == 3

\* load Vx (V0 or VF) and V1, I = a font glyph (0x50: digit 0, 0x55: digit
\* 1), draw at (Vx, V1), draw again at (Vx, V1) with the same or another
\* height.
DrawRoms ==
    {<<Load(x, a), Load(1, b), Op(10, 0, g \div 16, g % 16), Op(13, x, 1, n), Op(13, x, 1, m)>> :
        x \in {0, 15}, a \in CoordsX, b \in CoordsY, g \in {80, 85},
        n \in 0..MaxRows, m \in {1, MaxRows}}

\* V0 = 128, I = 0xF80, then I += V0 for ever: the index register passes
\* the end of memory and finally the end of u16.
IndexRoms == {<<Load(0, 128), Op(10, 15, 8, 0), Op(15, 0, 1, 14), Op(1, 2, 0, 4)>>}

\* Programs that draw a font digit: V0 = d, I = the glyph of V0, then the
\* five rows of the glyph at (V1, V2) = (0, 0).
Digits == 0..15

FontRoms == {<<Load(0, d), Op(15, 0, 2, 9), Op(13, 1, 2, 5)>> : d \in Digits}

\* Programs that store the BCD digits of a register: every byte value at
\* I = 0x300, and 234 at the last three cells of memory and one cell further.
BcdRoms ==
    {<<Load(0, v), Op(10, 3, 0, 0), Op(15, 0, 3, 3)>> : v \in 0..(U8 - 1)}
    \cup {<<Load(1, 234), Op(10, 15, 15, n), Op(15, 1, 3, 3)>> : n \in {13, 14}}

\* Programs that store V0..Vx at I = 0x33E or at the last two cells of
\* memory and then load V0..Vy from the program's own bytes at 0x200.
BlockRegs == {0, 1, 2, 15}

BlockRoms ==
    {<<Load(0, 17), Load(1, 34), Load(2, 51), Op(10, n, n, 14),
       Op(15, x, 5, 5), Op(10, 2, 0, 0), Op(15, y, 6, 5)>> :
        n \in {3, 15}, x \in BlockRegs, y \in BlockRegs}

\* Programs that load each register and then the index register.
DecodeRoms ==
    {<<Load(x, kk), Op(10, n, 2, n)>> :
        x \in 0..(NUM_REGISTERS - 1), kk \in {60, 255}, n \in {0, 1, 15}}

\* Programs that clear a display with lit pixels inside a subroutine:
\* V3 = a, I = the glyph of 0 or F, call 0x208, draw n rows at (V1, V2) =
\* (0, 0), clear.
ClearRoms ==
    {<<Load(3, a), Op(10, 0, g \div 16, g % 16), Op(2, 2, 0, 8), 0,
       Op(13, 1, 2, n), Op(0, 0, 14, 0)>> :
        a \in {0, 7}, g \in {80, 155}, n \in {1, 5}}

\* Programs that send the program counter to the end of memory: jumps to
\* 0xFFE and 0xFFF, and jumps with offset V0 = a to 0xFFE + a and 0xFFF + a.
JumpRoms ==
    {<<Op(1, 15, 15, n)>> : n \in {14, 15}}
    \cup {<<Load(0, a), Op(11, 15, 15, n)>> : a \in {0, 1, 255}, n \in {14, 15}}

\* Programs that draw a sprite twice over a display that is not blank:
\* V0 = a, V1 = b, the five rows of the glyph 0 at (V2, V3) = (0, 0), then
\* I = the glyph 1 or F and n rows of it at (V0, V1), twice.
RedrawRoms ==
    {<<Load(0, a), Load(1, b), Op(10, 0, 5, 0), Op(13, 2, 3, 5),
       Op(10, 0, g \div 16, g % 16), Op(13, 0, 1, n), Op(13, 0, 1, n)>> :
        a \in {0, 2, 62}, b \in {0, 3, 30}, g \in {85, 155}, n \in {1, 5}}

\* Programs that set both timers from V0 = v and then read the running
\* delay timer twice.
TimerRoms ==
    {<<Load(0, v), Op(15, 0, 1, 5), Op(15, 0, 1, 8), Op(15, 1, 0, 7),
       Op(15, 0, 0, 7)>> : v \in {0, 1, 2, 3, 255}}

Roms == UnaryRoms \cup BinaryRoms \cup CallRoms \cup DrawRoms \cup IndexRoms
        \cup FontRoms \cup BcdRoms \cup BlockRoms \cup DecodeRoms
        \cup ClearRoms \cup JumpRoms \cup RedrawRoms \cup TimerRoms

\* A file of n bytes of 6xkk instructions: byte 2k is 0x60 + k mod 16 and
\* byte 2k + 1 is k mod 256.
LoadFile(n) ==
    [i \in 1..n |-> IF i % 2 = 1 THEN 96 + (((i - 1) \div 2) % NUM_REGISTERS)
                    ELSE ((i - 1) \div 2) % U8]

\* The number of bytes from 0x200 to the end of memory.
RomCapacity == MEMORY_SIZE - ROM_START_ADDRESS

\* Files of the lengths at the edges: empty, one byte, exactly the capacity
\* and one byte more.
EdgeRomFiles == {LoadFile(n) : n \in {0, 1, RomCapacity, RomCapacity + 1}}

\* The ROM files: the programs above as bytes, and the edge files.
RomFiles == {RomBytes(rom) : rom \in Roms} \cup EdgeRomFiles

\* The keys main finds down before a cycle: none, key 0, keys 3 and 7.  The
\* keypad is overwritten before every cycle and read only by Ex9E, ExA1 and
\* Fx0A, so only those cycles are tried with keys down.
ReadsKeypad(op) ==
    \/ HighNibble(op) = 14 /\ LowByte(op) \in {158, 161}
    \/ HighNibble(op) = 15 /\ LowByte(op) = 10

KeySets(op) == IF op # -1 /\ ReadsKeypad(op) THEN {{}, {0}, {3, 7}} ELSE {{}}

KeyInputs(op) == {[k \in 0..(NUM_REGISTERS - 1) |-> k \in down] : down \in KeySets(op)}

\* The bytes rand::random() returns; only the Cxkk arm draws one.
RandomBytes(op) == IF HighNibble(op) = 12 THEN {0, 90, 255} ELSE {0}

\* Whether the build checks arithmetic overflow (a debug build does, a
\* release build does not); only `I + Vx` of Fx1E and `stack_pointer -= 1`
\* of 00EE can overflow.
OverflowChecks(op) ==
    IF (HighNibble(op) = 15 /\ LowByte(op) = 30) \/ op = 238 THEN BOOLEAN ELSE {FALSE}

----------------------------------------------------------------------------
\* The specification.

\* main 8-22: new, load_fonts
FontsLoaded == load_fonts(new)

\* main 23: load_rom
Loaded(data) == load_rom(FontsLoaded, data)

\* main 8-23: new, load_fonts, load_rom.
Init ==
    \E data \in RomFiles : \E s \in {Loaded(data)} :
            /\ rom_data = data
            /\ memory = s.memory
            /\ vregister = s.vregister
            /\ index_register = s.index_register
            /\ program_counter = s.program_counter
            /\ stack_pointer = s.stack_pointer
            /\ stack = s.stack
            /\ delay_timer = s.delay_timer
            /\ sound_timer = s.sound_timer
            /\ display = s.display
            /\ keypad = s.keypad
            /\ status = s.status
            /\ opcode = -1
            /\ call_log = <<>>
            /\ draw_log = <<>>

\* The machine of the current state.
cpu ==
    [ memory |-> memory, vregister |-> vregister,
      index_register |-> index_register, program_counter |-> program_counter,
      stack_pointer |-> stack_pointer, stack |-> stack,
      delay_timer |-> delay_timer, sound_timer |-> sound_timer,
      display |-> display, keypad |-> keypad, status |-> status ]

\* The calls not yet returned after a cycle that went from s to s1 on op.
CallLogAfter(log, s, s1, op) ==
    IF s1.status # "running" THEN log
    ELSE IF HighNibble(op) = 2
         THEN Append(log, [at |-> s.program_counter, sp |-> s.stack_pointer])
    ELSE IF op = 238 /\ Len(log) > 0 THEN SubSeq(log, 1, Len(log) - 1)
    ELSE log

\* The start of the last completed draw after a cycle that went from s to
\* s1 on op.
DrawLogAfter(log, s, s1, op) ==
    IF s1.status = "running" /\ HighNibble(op) = 13
    THEN <<[op |-> op, vx |-> s.vregister[RegX(op)], vy |-> s.vregister[RegY(op)],
            index_register |-> s.index_register, display |-> s.display]>>
    ELSE log

\* One iteration of the loop of main (70-126): the keypad is cleared and set
\* from the keys that are down, then cycle runs.
MainLoop ==
    /\ status = "running"
    /\ \E op \in {Fetch(cpu)} :
       \E keys \in KeyInputs(op) :
       \E random_byte \in RandomBytes(op) :
       \E overflow_checks \in OverflowChecks(op) :
       \E s \in {[cpu EXCEPT !.keypad = keys]} :
       \E s1 \in {cycle(s, random_byte, overflow_checks)} :
            /\ memory' = s1.memory
            /\ vregister' = s1.vregister
            /\ index_register' = s1.index_register
            /\ program_counter' = s1.program_counter
            /\ stack_pointer' = s1.stack_pointer
            /\ stack' = s1.stack
            /\ delay_timer' = s1.delay_timer
            /\ sound_timer' = s1.sound_timer
            /\ display' = s1.display
            /\ keypad' = s1.keypad
            /\ status' = s1.status
            /\ opcode' = op
            /\ rom_data' = rom_data
            /\ call_log' = CallLogAfter(call_log, s, s1, op)
            /\ draw_log' = DrawLogAfter(draw_log, s, s1, op)

Next == MainLoop

Spec == Init /\ [][Next]_vars

----------------------------------------------------------------------------
\* Vocabulary of the properties.  In a step of MainLoop the unprimed
\* variables are the machine when cycle is called (but for the keypad, which
\* main has just refreshed and cycle leaves alone: keypad' is the keypad that
\* cycle reads), opcode' is the opcode that cycle fetches, and the primed
\* variables are the machine when cycle returns, panics or starts to spin.

\* cycle is called.
Called == status = "running" /\ opcode' # -1

\* cycle is called and returns.
Completed == Called /\ status' = "running"

IsUnknown(op) ==
    \/ HighNibble(op) = 0 /\ op \notin {224, 238}
    \/ HighNibble(op) = 8 /\ LastNibble(op) \notin (0..7) \cup {14}
    \/ HighNibble(op) = 14 /\ LowByte(op) \notin {158, 161}
    \/ HighNibble(op) = 15 /\ LowByte(op) \notin {7, 10, 21, 24, 30, 41, 51, 85, 101}

IsKeyWait(op) == HighNibble(op) = 15 /\ LowByte(op) = 10

IsCall(op) == HighNibble(op) = 2

IsReturn(op) == op = 238

IsDraw(op) == HighNibble(op) = 13

IsAlu(op, n) == HighNibble(op) = 8 /\ LastNibble(op) = n

NoKeyDown(kp) == \A k \in 0..15 : ~kp[k]

Max(a, b) == IF a >= b THEN a ELSE b

Registers == 0..15

----------------------------------------------------------------------------
\* C1: a cycle on an opcode that matches no documented instruction returns,
\* leaves the registers, the index register, memory, the stack, the stack
\* pointer and the framebuffer unchanged and ends with the program counter
\* at its old value plus 2.
C1_UnknownOpcodeAdvances ==
    [][(Called /\ IsUnknown(opcode')) =>
            /\ status' = "running"
            /\ vregister' = vregister
            /\ index_register' = index_register
            /\ memory' = memory
            /\ stack' = stack
            /\ stack_pointer' = stack_pointer
            /\ display' = display
            /\ program_counter' = program_counter + 2]_vars

\* C2: a cycle on FX0A with every keypad flag false returns to the caller
\* with the program counter and Vx unchanged.
C2_KeyWaitReturnsWithoutKey ==
    [][(Called /\ IsKeyWait(opcode') /\ NoKeyDown(keypad')) =>
            /\ status' = "running"
            /\ program_counter' = program_counter
            /\ vregister'[RegX(opcode')] = vregister[RegX(opcode')]]_vars

\* C3: a cycle on FX0A with a keypad flag true returns with Vx the lowest
\* index of a true flag, the program counter advanced by 2 and every other
\* general register unchanged.
C3_KeyWaitTakesLowestKey ==
    [][(Called /\ IsKeyWait(opcode') /\ ~NoKeyDown(keypad')) =>
            /\ status' = "running"
            /\ keypad'[vregister'[RegX(opcode')]]
            /\ \A j \in 0..15 : keypad'[j] => vregister'[RegX(opcode')] <= j
            /\ program_counter' = program_counter + 2
            /\ \A r \in Registers \ {RegX(opcode')} : vregister'[r] = vregister[r]]_vars

\* A key wait has completed with keys 3 and 7 down and has stored 3.
C3_Witness ==
    /\ status = "running"
    /\ IsKeyWait(opcode)
    /\ keypad[3] /\ keypad[7]
    /\ vregister[RegX(opcode)] = 3

\* C4: every completed cycle ends with each timer at max(t - 1, 0), where t
\* is the value the instruction wrote to that timer (FX15 the delay timer,
\* FX18 the sound timer) and the timer's value at the start of the cycle for
\* every other opcode, unknown ones included; no timer leaves 0..255.
TimerWrite(op, low, old, regs) ==
    IF HighNibble(op) = 15 /\ LowByte(op) = low THEN regs[RegX(op)] ELSE old

C4_TimersTickOnce ==
    [][Completed =>
            /\ delay_timer' = Max(TimerWrite(opcode', 21, delay_timer, vregister) - 1, 0)
            /\ sound_timer' = Max(TimerWrite(opcode', 24, sound_timer, vregister) - 1, 0)
            /\ delay_timer' \in 0..255
            /\ sound_timer' \in 0..255]_vars

\* A cycle on an unknown opcode has ticked the delay timer down to 3 while
\* the sound timer rests at 0.
C4_Witness ==
    /\ status = "running"
    /\ IsUnknown(opcode)
    /\ delay_timer = 3
    /\ sound_timer = 0

\* C5: a completed CALL nnn at address P sets the program counter to nnn and
\* stores P in the stack slot at the old stack pointer; the RETURN that
\* matches it (every call made since has returned) resumes at P + 2 with the
\* stack pointer of before the CALL.
C5_CallReturnRoundTrip ==
    [][Completed =>
            /\ IsCall(opcode') =>
                  /\ program_counter' = Addr(opcode')
                  /\ stack'[stack_pointer] = program_counter
                  /\ stack_pointer' = stack_pointer + 1
            /\ IsReturn(opcode') =>
                  /\ call_log # <<>>
                  /\ program_counter' = call_log[Len(call_log)].at + 2
                  /\ stack_pointer' = call_log[Len(call_log)].sp]_vars

\* The recursive program with limit 17 has nested 16 calls and has returned
\* from every one of them.
C5_Witness ==
    /\ status = "running"
    /\ IsReturn(opcode)
    /\ vregister[0] = 17
    /\ stack_pointer = 0
    /\ call_log = <<>>
    /\ stack[15] = 516

\* C6: after 8xy5 VF is 1 if the old Vx was greater than the old Vy and 0
\* otherwise and, for x other than 0xF, Vx is (old Vx - old Vy) mod 256;
\* after 8xy7 VF is 1 if the old Vy was greater than the old Vx and 0
\* otherwise and, for x other than 0xF, Vx is (old Vy - old Vx) mod 256; for
\* all x and y in 0..15.
C6_SubtractFlagAndDifference ==
    [][Completed =>
          LET x == RegX(opcode')
              y == RegY(opcode')
          IN  /\ IsAlu(opcode', 5) =>
                    /\ vregister'[15] = (IF vregister[x] > vregister[y] THEN 1 ELSE 0)
                    /\ x # 15 => vregister'[x] = (vregister[x] - vregister[y]) % 256
              /\ IsAlu(opcode', 7) =>
                    /\ vregister'[15] = (IF vregister[y] > vregister[x] THEN 1 ELSE 0)
                    /\ x # 15 => vregister'[x] = (vregister[y] - vregister[x]) % 256]_vars

\* C7: 8xy4 always returns; afterwards VF is 1 if old Vx + old Vy exceeds
\* 255 and 0 otherwise and, for x other than 0xF, Vx is (old Vx + old Vy)
\* mod 256; for all x and y in 0..15.
C7_AddCarryAndSum ==
    [][(Called /\ IsAlu(opcode', 4)) =>
          LET x == RegX(opcode')
              y == RegY(opcode')
          IN  /\ status' = "running"
              /\ vregister'[15] = (IF vregister[x] + vregister[y] > 255 THEN 1 ELSE 0)
              /\ x # 15 => vregister'[x] = (vregister[x] + vregister[y]) % 256]_vars

\* 8F14 has added V1 = 1 to VF = 255 and left the carry in VF.
C7_Witness ==
    /\ status = "running"
    /\ opcode = Op(8, 15, 1, 4)
    /\ memory[ROM_START_ADDRESS + 1] = 255
    /\ vregister[1] = 1
    /\ vregister[15] = 1

\* C8: after 8xy6 VF is the least-significant bit of the old Vx and, for x
\* other than 0xF, Vx is old Vx div 2; after 8xyE VF is the most-significant
\* bit of the old Vx and, for x other than 0xF, Vx is (old Vx * 2) mod 256;
\* VF ends as 0 or 1; for all x in 0..15.
C8_ShiftFlagAndResult ==
    [][Completed =>
          LET x == RegX(opcode')
          IN  /\ IsAlu(opcode', 6) =>
                    /\ vregister'[15] = vregister[x] % 2
                    /\ x # 15 => vregister'[x] = vregister[x] \div 2
              /\ IsAlu(opcode', 14) =>
                    /\ vregister'[15] = vregister[x] \div 128
                    /\ x # 15 => vregister'[x] = (vregister[x] * 2) % 256
              /\ (IsAlu(opcode', 6) \/ IsAlu(opcode', 14)) => vregister'[15] \in {0, 1}]_vars

\* C9: a completed DxyN toggles exactly the pixels at column Vx + c and row
\* Vy + r of the 64x32 grid for which bit 7 - c of memory[I + r] is 1
\* (r < N, c < 8), and changes no other pixel.
SpriteSets(p, x, y, n, i, mem) ==
    \E r \in 0..(n - 1), c \in 0..7 :
        /\ (mem[i + r] \div (2 ^ (7 - c))) % 2 = 1
        /\ p % 64 = x + c
        /\ p \div 64 = y + r

C9_DrawTogglesSpritePixels ==
    [][(Completed /\ IsDraw(opcode')) =>
          \A p \in 0..2047 :
              display'[p] =
                  IF SpriteSets(p, vregister[RegX(opcode')], vregister[RegY(opcode')],
                                LastNibble(opcode'), index_register, memory)
                  THEN 1 - display[p]
                  ELSE display[p]]_vars

----------------------------------------------------------------------------
\* C11: when FX29 has been executed with Vx = d, d a digit 0..15, and the
\* next instruction is a 5-row draw at (0, 0) on an all-zero framebuffer,
\* the draw completes and afterwards pixel (c, r) is 1 exactly when r is in
\* 0..4, c is in 0..7 and bit (7 - c) of row r of the glyph of d in FONT_SET
\* is 1; every other pixel is 0.
IsFontDigit(op) == HighNibble(op) = 15 /\ LowByte(op) = 41

GlyphPixel(d, c, r) ==
    /\ r \in 0..4
    /\ c \in 0..7
    /\ (FONT_SET[5 * d + r + 1] \div (2 ^ (7 - c))) % 2 = 1

C11_FontDigitDrawn ==
    [][(/\ Called
        /\ opcode # -1
        /\ IsFontDigit(opcode)
        /\ vregister[RegX(opcode)] \in Digits
        /\ IsDraw(opcode')
        /\ LastNibble(opcode') = 5
        /\ vregister[RegX(opcode')] = 0
        /\ vregister[RegY(opcode')] = 0
        /\ \A p \in 0..(DISPLAY_SIZE - 1) : display[p] = 0)
       => /\ status' = "running"
          /\ \A p \in 0..(DISPLAY_SIZE - 1) :
                display'[p] = 1 <=>
                    GlyphPixel(vregister[RegX(opcode)],
                               p % DISPLAY_WIDTH, p \div DISPLAY_WIDTH)]_vars

\* The digit B (0xE0, 0x90, 0xE0, 0x90, 0xE0) has been drawn at (0, 0).
C11_Witness ==
    /\ status = "running"
    /\ IsDraw(opcode) /\ LastNibble(opcode) = 5
    /\ vregister[0] = 11
    /\ index_register = FONT_START_ADDRESS + 55
    /\ display[0] = 1 /\ display[2] = 1 /\ display[3] = 0
    /\ display[DISPLAY_WIDTH] = 1 /\ display[DISPLAY_WIDTH + 1] = 0
    /\ display[DISPLAY_WIDTH + 3] = 1
    /\ display[4 * DISPLAY_WIDTH + 2] = 1
    /\ display[5 * DISPLAY_WIDTH] = 0

----------------------------------------------------------------------------
\* C12: FX33 with I + 2 <= 4095 completes with memory[I] = Vx div 100,
\* memory[I + 1] = (Vx div 10) mod 10 and memory[I + 2] = Vx mod 10, three
\* cells in 0..9 with 100 * memory[I] + 10 * memory[I + 1] + memory[I + 2]
\* = Vx; no other memory cell, no register and not the index register
\* changes.
IsBcd(op) == HighNibble(op) = 15 /\ LowByte(op) = 51

C12_BcdStore ==
    [][(Called /\ IsBcd(opcode') /\ index_register + 2 <= MEMORY_SIZE - 1)
       => LET v == vregister[RegX(opcode')]
              i == index_register
          IN  /\ status' = "running"
              /\ memory'[i] = v \div 100
              /\ memory'[i + 1] = (v \div 10) % 10
              /\ memory'[i + 2] = v % 10
              /\ \A k \in 0..2 : memory'[i + k] \in 0..9
              /\ 100 * memory'[i] + 10 * memory'[i + 1] + memory'[i + 2] = v
              /\ \A a \in 0..(MEMORY_SIZE - 1) :
                    a \notin i..(i + 2) => memory'[a] = memory[a]
              /\ vregister' = vregister
              /\ index_register' = index_register]_vars

\* 234 has been stored as 2, 3, 4 in the last three cells of memory.
C12_Witness ==
    /\ status = "running"
    /\ IsBcd(opcode)
    /\ vregister[RegX(opcode)] = 234
    /\ index_register = MEMORY_SIZE - 3
    /\ memory[MEMORY_SIZE - 3] = 2
    /\ memory[MEMORY_SIZE - 2] = 3
    /\ memory[MEMORY_SIZE - 1] = 4

----------------------------------------------------------------------------
\* C13: a completed FX55 leaves memory[I + i] = Vi for every i in 0..x and
\* changes no other memory cell and no register; a completed FX65 leaves
\* Vi = memory[I + i] for every i in 0..x and changes no memory cell and no
\* register above Vx; the index register is unchanged by both.
IsStore(op) == HighNibble(op) = 15 /\ LowByte(op) = 85

IsLoad(op) == HighNibble(op) = 15 /\ LowByte(op) = 101

C13_BlockStoreLoad ==
    [][LET x == RegX(opcode')
           i == index_register
       IN  /\ (Completed /\ IsStore(opcode'))
              => /\ \A r \in 0..x : memory'[i + r] = vregister[r]
                 /\ \A a \in 0..(MEMORY_SIZE - 1) :
                       a \notin i..(i + x) => memory'[a] = memory[a]
                 /\ vregister' = vregister
                 /\ index_register' = i
           /\ (Completed /\ IsLoad(opcode'))
              => /\ \A r \in 0..x : vregister'[r] = memory[i + r]
                 /\ \A r \in Registers : r > x => vregister'[r] = vregister[r]
                 /\ memory' = memory
                 /\ index_register' = i]_vars

\* V0..V1 have been stored at 0x33E and then loaded from 0x200, where the
\* program's first bytes are 0x60 and 0x11; V2 keeps its 51.
C13_Witness ==
    /\ status = "running"
    /\ opcode = Op(15, 1, 6, 5)
    /\ index_register = ROM_START_ADDRESS
    /\ vregister[0] = 96 /\ vregister[1] = 17 /\ vregister[2] = 51
    /\ memory[830] = 17 /\ memory[831] = 34 /\ memory[832] = 0

----------------------------------------------------------------------------
\* C14: the opcode of a cycle is memory[PC] * 256 + memory[PC + 1]; when its
\* first nibble is 6, with x the low nibble of memory[PC] and kk =
\* memory[PC + 1], the cycle sets Vx to kk, changes no other register and
\* advances the program counter by 2; when its first nibble is 0xA, the
\* cycle sets the index register to the low 12 bits nnn and advances the
\* program counter by 2.
C14_FetchDecode ==
    [][Called =>
        LET hi == memory[program_counter]
            lo == memory[program_counter + 1]
        IN  /\ opcode' = hi * 256 + lo
            /\ hi \div 16 = 6
               => /\ status' = "running"
                  /\ vregister'[hi % 16] = lo
                  /\ \A r \in Registers : r # hi % 16 => vregister'[r] = vregister[r]
                  /\ program_counter' = program_counter + 2
            /\ hi \div 16 = 10
               => /\ status' = "running"
                  /\ index_register' = (hi % 16) * 256 + lo
                  /\ program_counter' = program_counter + 2]_vars

\* 0x6A3C and then 0xAF2F have run: VA = 0x3C and I = 0xF2F.
C14_Witness ==
    /\ status = "running"
    /\ opcode = Op(10, 15, 2, 15)
    /\ index_register = 3887
    /\ vregister[10] = 60
    /\ \A r \in Registers : r # 10 => vregister[r] = 0
    /\ program_counter = ROM_START_ADDRESS + 4

----------------------------------------------------------------------------
\* C15: a cycle on 00E0 completes with every one of the 2048 framebuffer
\* cells 0, whatever they held, the program counter advanced by 2, and the
\* registers, the index register, the memory, the stack and the stack
\* pointer unchanged.
IsClear(op) == op = 224

C15_ClearScreen ==
    [][(Called /\ IsClear(opcode'))
       => /\ status' = "running"
          /\ \A p \in 0..(DISPLAY_SIZE - 1) : display'[p] = 0
          /\ program_counter' = program_counter + 2
          /\ vregister' = vregister
          /\ index_register' = index_register
          /\ memory' = memory
          /\ stack' = stack
          /\ stack_pointer' = stack_pointer]_vars

\* The display has been cleared in a subroutine after the five rows of the
\* glyph F were drawn: the draw left I = 0x9B, V3 = 7 and one return
\* address in place.
C15_Witness ==
    /\ status = "running"
    /\ IsClear(opcode)
    /\ \A p \in 0..(DISPLAY_SIZE - 1) : display[p] = 0
    /\ memory[ROM_START_ADDRESS + 9] = 37
    /\ index_register = 155
    /\ vregister[3] = 7
    /\ stack_pointer = 1 /\ stack[0] = ROM_START_ADDRESS + 4
    /\ program_counter = ROM_START_ADDRESS + 12

----------------------------------------------------------------------------
\* The skip instructions 3xkk, 4xkk, 5xy0, 9xy0, Ex9E and ExA1, and the
\* condition each one tests on the registers regs and the keypad kp; a key
\* number above 15 names no key, so it is not pressed.
IsSkip(op) ==
    \/ HighNibble(op) \in {3, 4}
    \/ HighNibble(op) \in {5, 9} /\ LastNibble(op) = 0
    \/ HighNibble(op) = 14 /\ LowByte(op) \in {158, 161}

KeyPressed(kp, k) == k \in 0..15 /\ kp[k]

SkipCondition(op, regs, kp) ==
    LET vx == regs[RegX(op)]
        vy == regs[RegY(op)]
    IN  CASE HighNibble(op) = 3 -> vx = LowByte(op)
          [] HighNibble(op) = 4 -> vx # LowByte(op)
          [] HighNibble(op) = 5 -> vx = vy
          [] HighNibble(op) = 9 -> vx # vy
          [] LowByte(op) = 158  -> KeyPressed(kp, vx)
          [] OTHER              -> ~KeyPressed(kp, vx)

IsJump(op) == HighNibble(op) \in {1, 11}

\* C16: a completed cycle on 1nnn or 2nnn ends with PC = nnn, one on Bnnn
\* with PC = nnn + V0, and a completed cycle on anything that is not a jump,
\* a call, a return or a skip whose condition holds ends with PC equal to
\* its value at the fetch plus 2.
C16_ProgramCounterRule ==
    [][Completed =>
        LET op == opcode'
        IN  /\ HighNibble(op) \in {1, 2} => program_counter' = Addr(op)
            /\ HighNibble(op) = 11 => program_counter' = Addr(op) + vregister[0]
            /\ (/\ ~IsJump(op) /\ ~IsCall(op) /\ ~IsReturn(op)
                /\ ~(IsSkip(op) /\ SkipCondition(op, vregister, keypad')))
               => program_counter' = program_counter + 2]_vars

----------------------------------------------------------------------------
\* C17: the stack pointer is in 0..16 after every cycle; a cycle on 2nnn
\* with 16 return addresses stored writes no stack slot, and a cycle on
\* 00EE with no return address stored does not change the stack pointer.
C17_CallStackSafety ==
    [][Called =>
        /\ stack_pointer' \in 0..STACK_SIZE
        /\ (IsCall(opcode') /\ stack_pointer = STACK_SIZE) => stack' = stack
        /\ (IsReturn(opcode') /\ stack_pointer = 0)
           => stack_pointer' = stack_pointer]_vars

----------------------------------------------------------------------------
\* C18: in every state the program counter satisfies PC + 1 <= 4095.
C18_ProgramCounterInMemory == program_counter + 1 <= MEMORY_SIZE - 1

----------------------------------------------------------------------------
\* C19: after load_rom on a file of n bytes the machine runs (the load
\* completed), memory[0x200 + i] is byte i of the file for every
\* i < min(n, 3584), and every cell below 0x200 is as load_fonts left it.
JustLoaded == opcode = -1 /\ program_counter = ROM_START_ADDRESS

Min(a, b) == IF a <= b THEN a ELSE b

C19_LoaderTruncates ==
    JustLoaded =>
        /\ status = "running"
        /\ \A i \in 0..(Min(Len(rom_data), RomCapacity) - 1) :
              memory[ROM_START_ADDRESS + i] = rom_data[i + 1]
        /\ \A a \in 0..(ROM_START_ADDRESS - 1) : memory[a] = FontsLoaded.memory[a]

----------------------------------------------------------------------------
\* C20: a cycle on 3xkk, 4xkk, 5xy0, 9xy0, Ex9E or ExA1 completes, for
\* every value of Vx, with the program counter advanced by 4 when the
\* condition of the instruction holds and by 2 when it does not, and with
\* the registers, the memory, the stack and the framebuffer unchanged.
C20_SkipInstructions ==
    [][(Called /\ IsSkip(opcode'))
       => /\ status' = "running"
          /\ program_counter' =
                program_counter +
                    (IF SkipCondition(opcode', vregister, keypad') THEN 4 ELSE 2)
          /\ vregister' = vregister
          /\ memory' = memory
          /\ stack' = stack
          /\ display' = display]_vars

----------------------------------------------------------------------------
\* C21: when the last cycle completed a DxyN and the next cycle completes
\* the same DxyN with Vx, Vy and the index register (and so the sprite
\* bytes, which no draw writes) as they were at the first, the framebuffer
\* after the second draw is the framebuffer from before the first.
C21_DrawTwiceRestores ==
    [][(/\ Completed
        /\ IsDraw(opcode')
        /\ opcode = opcode'
        /\ Len(draw_log) = 1
        /\ draw_log[1].op = opcode
        /\ draw_log[1].vx = vregister[RegX(opcode')]
        /\ draw_log[1].vy = vregister[RegY(opcode')]
        /\ draw_log[1].index_register = index_register)
       => display' = draw_log[1].display]_vars

\* The five rows of the glyph F have been drawn twice at (0, 0) over the
\* glyph 0: pixel 0 was off and pixel 3 on between the two draws, and the
\* glyph 0 (0xF0, 0x90, ...) is back.
C21_Witness ==
    /\ status = "running"
    /\ opcode = Op(13, 0, 1, 5)
    /\ program_counter = ROM_START_ADDRESS + 14
    /\ index_register = 155
    /\ vregister[0] = 0 /\ vregister[1] = 0
    /\ Len(draw_log) = 1
    /\ draw_log[1].op = opcode
    /\ draw_log[1].display[0] = 0
    /\ draw_log[1].display[DISPLAY_WIDTH + 1] = 0
    /\ draw_log[1].display[DISPLAY_WIDTH + 3] = 1
    /\ display[0] = 1 /\ display[3] = 1
    /\ display[DISPLAY_WIDTH] = 1 /\ display[DISPLAY_WIDTH + 1] = 0
    /\ display[DISPLAY_WIDTH + 3] = 1

----------------------------------------------------------------------------
\* C22: a cycle on FX15 with Vx = v completes with the delay timer at v - 1
\* when v > 0 and at 0 when v = 0, a cycle on FX18 likewise with the sound
\* timer, and a cycle on FX07 completes with Vx holding the delay timer of
\* before the cycle, not the decremented one.
IsTimerOp(op, low) == HighNibble(op) = 15 /\ LowByte(op) = low

C22_EffectBeforeTick ==
    [][Called =>
        LET v == vregister[RegX(opcode')]
        IN  /\ IsTimerOp(opcode', 21)
               => /\ status' = "running"
                  /\ delay_timer' = IF v > 0 THEN v - 1 ELSE 0
            /\ IsTimerOp(opcode', 24)
               => /\ status' = "running"
                  /\ sound_timer' = IF v > 0 THEN v - 1 ELSE 0
            /\ IsTimerOp(opcode', 7)
               => /\ status' = "running"
                  /\ vregister'[RegX(opcode')] = delay_timer]_vars

\* After V0 = 255, F015 and F018, the cycle on F107 has stored 253, the
\* delay timer it found, and left the timer at 252.
C22_Witness ==
    /\ status = "running"
    /\ opcode = Op(15, 1, 0, 7)
    /\ vregister[0] = 255
    /\ vregister[1] = 253
    /\ delay_timer = 252
    /\ sound_timer = 253

====
